---- MODULE Spec2Model ----
(***************************************************************************)
(* LegacyNodeReconciler of kops-controller                                 *)
(* (cmd/kops-controller/controllers/legacy_node_controller.go).            *)
(*                                                                         *)
(* One Reconcile pass per node is modelled as a sequence of steps, cut at  *)
(* the external calls the pass makes: the node fetch, the cluster load,    *)
(* the instance-group resolution and load, the lifecycle lookup followed   *)
(* by the local diff, and the patch.  The environment (other label         *)
(* writers, manifest authors, the identity provider, the clock) acts       *)
(* between these steps.                                                    *)
(***************************************************************************)
EXTENDS Integers, Sequences, FiniteSets, TLC

\* ------------------------------------------------------------------ bounds
MaxPasses == 2      \* passes the dispatcher triggers in one behaviour
MaxEnv == 1         \* events of the environment in one behaviour, clock ticks included
MaxFaults == 1      \* external calls for one node that fail before calls succeed for good

\* --------------------------------------------------------------- constants
\* ttl := time.Hour, the clock ticking once an hour
TTL == 1
\* controller-runtime's default for a controller built without options
MaxConcurrentReconciles == 1

Nodes == {"n1", "n2"}

RoleLabelMaster16 == "node-role.kubernetes.io/master"
RoleLabelAPIServer16 == "node-role.kubernetes.io/api-server"
RoleLabelNode16 == "node-role.kubernetes.io/node"
RoleLabelControlPlane20 == "node-role.kubernetes.io/control-plane"
InstanceGroupLabel == "kops.k8s.io/instancegroup"
\* a label owned by some other actor
UnrelatedLabel == "example.com/team"

\* the keys of the switch that prunes labels
PrunedKeys ==
  {RoleLabelMaster16, RoleLabelAPIServer16, RoleLabelNode16, RoleLabelControlPlane20}

GroupNames == {"g1", "g2"}
Lifecycles == {"", "spot", "scheduled"}
Roles == {"Master", "APIServer", "Node"}

\* ------------------------------------------------------------- label maps
EmptyMap == [k \in {} |-> ""]

Has(m, k) == k \in DOMAIN m

\* m[k] of a Go map: the zero value when the key is absent
Lookup(m, k) == IF k \in DOMAIN m THEN m[k] ELSE ""

Put(m, k, v) == [x \in (DOMAIN m) \cup {k} |-> IF x = k THEN v ELSE m[x]]

Without(m, ks) == [x \in (DOMAIN m) \ ks |-> m[x]]

\* fmt.Sprintf("node-role.kubernetes.io/%s-worker", lifecycle)
LifecycleLabel(lifecycle) == "node-role.kubernetes.io/" \o lifecycle \o "-worker"

\* ---------------------------------------------------------- manifest store
configBase == <<"base">>

Join(p, parts) == p \o parts

ClusterPath == Join(configBase, <<"cluster-completed.spec">>)

InstanceGroupPath(name) == Join(configBase, <<"instancegroup", name>>)

Paths == {ClusterPath} \cup {InstanceGroupPath(g) : g \in GroupNames}

\* manifest bytes: a serialized object of some kind, or bytes that do not parse
ClusterBytes == [kind |-> "Cluster", role |-> ""]

InstanceGroupBytes(role) == [kind |-> "InstanceGroup", role |-> role]

Malformed == [kind |-> "malformed", role |-> ""]

Missing == [kind |-> "missing", role |-> ""]

NoObject == [kind |-> "none", role |-> ""]

Contents ==
  {ClusterBytes, Malformed, Missing}
    \cup {InstanceGroupBytes(r) : r \in Roles \cup {"Unknown"}}

\* kopscodecs.Decode: the typed object, or an error for bytes that do not parse
Decode(b) ==
  IF b.kind \in {"Cluster", "InstanceGroup"}
    THEN [err |-> "", obj |-> b]
    ELSE [err |-> "decode", obj |-> NoObject]

\* --------------------------------------------------------------- variables
VARIABLES
  \* the cluster, as the API server, the manifest store and the provider hold it
  nodeExists,     \* node -> whether the Node object exists
  nodeLabels,     \* node -> its label map on the API server
  providerID,     \* node -> Spec.ProviderID
  store,          \* path -> bytes held by the manifest store
  identity,       \* node -> what the identity provider answers for it
  now,            \* the clock, in hours
  envSteps,       \* events of the environment so far
  \* the reconciler
  cache,          \* r.cache: path -> entry
  passes,         \* passes triggered so far
  dispatcher,     \* node -> pending: a request for the node is queued; faults: the
                  \* external calls of its passes that have failed
  pc,             \* node -> position of its pass
  node,           \* node -> the Node object its pass fetched
  cluster,        \* node -> cluster object of its pass
  ig,             \* node -> instance group object of its pass
  labels,         \* node -> desired labels of its pass
  lifecycle,      \* node -> lifecycle of its pass
  updateLabels,   \* node -> labels to set
  deleteLabels,   \* node -> label keys to remove
  result,         \* node -> "none", "ok" or "error": what Reconcile returned
  err,            \* node -> the error Reconcile returned, "" when none
  \* observation of a pass
  log,            \* node -> the external calls of its pass and what they returned
  touched,        \* node -> another writer changed its labels since the fetch
  applied,        \* node -> label keys patches of the reconciler have set on it
  readLog,        \* path -> the reads the cache answered with bytes: for whom, when, how
  prev            \* node -> what its last pass worked from, if it patched the node and
                  \* no other writer has changed the node's labels since it fetched them

envVars == <<nodeExists, nodeLabels, providerID, store, identity, now, envSteps>>

localVars ==
  <<node, cluster, ig, labels, lifecycle, updateLabels, deleteLabels, result, err>>

obsVars == <<log, touched, applied, readLog, prev>>

vars == <<envVars, cache, passes, dispatcher, pc, localVars, obsVars>>

NoNode == [Labels |-> EmptyMap, ProviderID |-> ""]

NoIdentity == [InstanceGroup |-> "", InstanceLifecycle |-> ""]

NoPrev == [patched |-> FALSE, cluster |-> NoObject, ig |-> NoObject, lifecycle |-> ""]

\* one external call as the pass saw it: the collaborator called, the path read
\* (cache reads), the error returned, the bytes returned (cache reads) and the
\* identity returned (provider lookups)
Call(c, p, e, b, id) == [call |-> c, path |-> p, err |-> e, b |-> b, id |-> id]

\* --------------------------------------------------------------- vfs.Cache
NoEntry == [valid |-> FALSE, payload |-> Missing, fetchedAt |-> 0]

\* cache.Read(p, ttl) at time t over the store st; io: the backing fetch fails
CacheRead(c, p, ttl, t, st, io) ==
  IF c[p].valid /\ t - c[p].fetchedAt < ttl
    THEN [err |-> "", b |-> c[p].payload, cache |-> c, fetched |-> FALSE]
  ELSE IF io
    THEN [err |-> "io", b |-> Missing, cache |-> c, fetched |-> TRUE]
  ELSE IF st[p] = Missing
    THEN [err |-> "notfound", b |-> Missing, cache |-> c, fetched |-> TRUE]
  ELSE [err |-> "", b |-> st[p],
        cache |-> [c EXCEPT ![p] = [valid |-> TRUE, payload |-> st[p], fetchedAt |-> t]],
        fetched |-> TRUE]

\* ---------------------------------------------------------------- loaders
\* fault injection: the error of the read is dropped and the bytes are parsed
loadClusterErrDropped(c, p, t, st, io) ==
  LET r == CacheRead(c, p, TTL, t, st, io)
      d == Decode(r.b)
      e == IF d.err # "" THEN "error parsing Cluster"
           ELSE IF d.obj.kind = "Cluster" THEN ""
           ELSE "unexpected object type for Cluster"
  IN  [err |-> e, cluster |-> IF e = "" THEN d.obj ELSE NoObject, cache |-> r.cache,
       log |-> <<Call("Read", p, r.err, r.b, NoIdentity)>>, fetched |-> r.fetched]

\* fault injection: the cluster manifest is read with no time to live
loadClusterNoTTL(c, p, t, st, io) ==
  LET r == CacheRead(c, p, 0, t, st, io)
      d == Decode(r.b)
      e == IF r.err # "" THEN "error loading Cluster"
           ELSE IF d.err # "" THEN "error parsing Cluster"
           ELSE IF d.obj.kind = "Cluster" THEN ""
           ELSE "unexpected object type for Cluster"
  IN  [err |-> e, cluster |-> IF e = "" THEN d.obj ELSE NoObject, cache |-> r.cache,
       log |-> <<Call("Read", p, r.err, r.b, NoIdentity)>>, fetched |-> r.fetched]

loadCluster(c, p, t, st, io) ==
  LET r == CacheRead(c, p, TTL, t, st, io)
      d == Decode(r.b)
      e == IF r.err # "" THEN "error loading Cluster"
           ELSE IF d.err # "" THEN "error parsing Cluster"
           ELSE IF d.obj.kind = "Cluster" THEN ""
           ELSE "unexpected object type for Cluster"
  IN  [err |-> e, cluster |-> IF e = "" THEN d.obj ELSE NoObject, cache |-> r.cache,
       log |-> <<Call("Read", p, r.err, r.b, NoIdentity)>>, fetched |-> r.fetched]

getClusterForNode(c, t, st, io) == loadCluster(c, Join(configBase, <<"cluster-completed.spec">>), t, st, io)

loadNamedInstanceGroup(name, c, t, st, io) ==
  LET p == Join(configBase, <<"instancegroup", name>>)
      r == CacheRead(c, p, TTL, t, st, io)
      d == Decode(r.b)
      e == IF r.err # "" THEN "error loading InstanceGroup"
           ELSE IF d.err # "" THEN "error parsing InstanceGroup"
           ELSE IF d.obj.kind # "InstanceGroup" THEN "unexpected type, expected InstanceGroup"
           ELSE ""
  IN  [err |-> e, ig |-> IF e = "" THEN d.obj ELSE NoObject, cache |-> r.cache,
       log |-> <<Call("Read", p, r.err, r.b, NoIdentity)>>, fetched |-> r.fetched]

\* r.identifier.IdentifyNode(ctx, node): fail is the provider's own failure
IdentifyNode(id, fail) ==
  IF fail THEN [err |-> "lookup failed", identity |-> NoIdentity]
          ELSE [err |-> "", identity |-> id]

\* fault injection: the provider is asked without a check of the providerID
getInstanceGroupForNodeUnchecked(nd, id, fail, c, t, st, io) ==
  LET instanceGroupName == Lookup(nd.Labels, InstanceGroupLabel)
      i == IdentifyNode(id, fail)
      asked == <<Call("IdentifyNode", <<>>, i.err, Missing, i.identity)>>
      failed(e, calls) ==
        [err |-> e, ig |-> NoObject, cache |-> c, log |-> calls, fetched |-> FALSE]
      load(name, calls) ==
        LET l == loadNamedInstanceGroup(name, c, t, st, io)
        IN  [err |-> l.err, ig |-> l.ig, cache |-> l.cache, log |-> calls \o l.log,
             fetched |-> l.fetched]
  IN  IF instanceGroupName = ""
        THEN IF i.err # ""
               THEN failed("error identifying node", asked)
             ELSE IF i.identity.InstanceGroup = ""
               THEN failed("node did not have an associate instance group", asked)
             ELSE load(i.identity.InstanceGroup, asked)
        ELSE load(instanceGroupName, <<>>)

\* fault injection: the label is not trusted when the provider knows the node's group
getInstanceGroupForNodeParanoid(nd, id, fail, c, t, st, io) ==
  LET instanceGroupName == Lookup(nd.Labels, InstanceGroupLabel)
      i == IdentifyNode(id, fail)
      asked == <<Call("IdentifyNode", <<>>, i.err, Missing, i.identity)>>
      failed(e, calls) ==
        [err |-> e, ig |-> NoObject, cache |-> c, log |-> calls, fetched |-> FALSE]
      load(name, calls) ==
        LET l == loadNamedInstanceGroup(name, c, t, st, io)
        IN  [err |-> l.err, ig |-> l.ig, cache |-> l.cache, log |-> calls \o l.log,
             fetched |-> l.fetched]
  IN  IF nd.ProviderID = ""
        THEN IF instanceGroupName = ""
               THEN failed("node providerID not set", <<>>)
               ELSE load(instanceGroupName, <<>>)
      ELSE IF i.err # ""
        THEN failed("error identifying node", asked)
      ELSE IF i.identity.InstanceGroup = ""
        THEN IF instanceGroupName = ""
               THEN failed("node did not have an associate instance group", asked)
               ELSE load(instanceGroupName, asked)
      ELSE load(i.identity.InstanceGroup, asked)

\* getInstanceGroupForNode over the fetched node nd; id is the provider's record
getInstanceGroupForNode(nd, id, fail, c, t, st, io) ==
  LET instanceGroupName == Lookup(nd.Labels, InstanceGroupLabel)
      i == IdentifyNode(id, fail)
      asked == <<Call("IdentifyNode", <<>>, i.err, Missing, i.identity)>>
      failed(e, calls) ==
        [err |-> e, ig |-> NoObject, cache |-> c, log |-> calls, fetched |-> FALSE]
      load(name, calls) ==
        LET l == loadNamedInstanceGroup(name, c, t, st, io)
        IN  [err |-> l.err, ig |-> l.ig, cache |-> l.cache, log |-> calls \o l.log,
             fetched |-> l.fetched]
  IN  IF instanceGroupName = ""
        THEN IF nd.ProviderID = ""
               THEN failed("node providerID not set", <<>>)
             ELSE IF i.err # ""
               THEN failed("error identifying node", asked)
             ELSE IF i.identity.InstanceGroup = ""
               THEN failed("node did not have an associate instance group", asked)
             ELSE load(i.identity.InstanceGroup, asked)
        ELSE load(instanceGroupName, <<>>)

\* getInstanceGroupForNode up to the name of the group, before the manifest of
\* the group is loaded
instanceGroupNameForNode(nd, id, fail) ==
  LET instanceGroupName == Lookup(nd.Labels, InstanceGroupLabel)
      i == IdentifyNode(id, fail)
      asked == <<Call("IdentifyNode", <<>>, i.err, Missing, i.identity)>>
  IN  IF instanceGroupName = ""
        THEN IF nd.ProviderID = ""
               THEN [err |-> "node providerID not set", name |-> "", log |-> <<>>]
             ELSE IF i.err # ""
               THEN [err |-> "error identifying node", name |-> "", log |-> asked]
             ELSE IF i.identity.InstanceGroup = ""
               THEN [err |-> "node did not have an associate instance group",
                     name |-> "", log |-> asked]
             ELSE [err |-> "", name |-> i.identity.InstanceGroup, log |-> asked]
        ELSE [err |-> "", name |-> instanceGroupName, log |-> <<>>]

\* fault injection: a failed lookup is taken for "no lifecycle"
getInstanceLifecycleOptional(id, fail) ==
  LET i == IdentifyNode(id, fail)
  IN  [err |-> "",
       lifecycle |-> IF i.err # "" THEN "" ELSE i.identity.InstanceLifecycle,
       log |-> <<Call("IdentifyNode", <<>>, i.err, Missing, i.identity)>>]

\* getInstanceLifecycle
getInstanceLifecycle(id, fail) ==
  LET i == IdentifyNode(id, fail)
  IN  [err |-> IF i.err # "" THEN "error identifying node" ELSE "",
       lifecycle |-> IF i.err # "" THEN "" ELSE i.identity.InstanceLifecycle,
       log |-> <<Call("IdentifyNode", <<>>, i.err, Missing, i.identity)>>]

\* nodelabels.BuildNodeLabels: the role labels of the group's role, one key for
\* every generation of the label scheme
BuildNodeLabels(cl, g) ==
  IF g.role = "Master"
    THEN [err |-> "", labels |->
            Put(Put(EmptyMap, RoleLabelControlPlane20, "true"), RoleLabelMaster16, "true")]
  ELSE IF g.role = "APIServer"
    THEN [err |-> "", labels |-> Put(EmptyMap, RoleLabelAPIServer16, "true")]
  ELSE IF g.role = "Node"
    THEN [err |-> "", labels |-> Put(EmptyMap, RoleLabelNode16, "true")]
  ELSE [err |-> "unhandled instanceGroup role", labels |-> EmptyMap]

\* fault injection: the length of the lifecycle is not tested
WithLifecycleAlways(ls, lc) == Put(ls, LifecycleLabel(lc), "true")

\* if len(lifecycle) > 0 { labels[...] = "true" }
WithLifecycle(ls, lc) ==
  IF Len(lc) > 0 THEN Put(ls, LifecycleLabel(lc), "true") ELSE ls

\* for k, v := range labels { ... updateLabels[k] = v }
RECURSIVE UpdateLoop(_, _, _, _)
UpdateLoop(keys, ls, actualLabels, acc) ==
  IF keys = {} THEN acc
  ELSE LET k == CHOOSE x \in keys : TRUE
           v == ls[k]
           found == Has(actualLabels, k)
           actual == Lookup(actualLabels, k)
       IN  UpdateLoop(keys \ {k}, ls, actualLabels,
                      IF ~found \/ actual # v THEN Put(acc, k, v) ELSE acc)

\* fault injection: every desired label is set again, whatever the node has
BuildUpdateLabelsAll(ls, actualLabels) == ls

\* fault injection: the comparison of values is lost, only missing keys are set
BuildUpdateLabelsMissingOnly(ls, actualLabels) ==
  [k \in {x \in DOMAIN ls : ~Has(actualLabels, x)} |-> ls[k]]

BuildUpdateLabels(ls, actualLabels) == UpdateLoop(DOMAIN ls, ls, actualLabels, EmptyMap)

\* fault injection: the key of the earlier label scheme is left out of the switch
IsPrunedCurrentOnly(k) == k \in PrunedKeys \ {RoleLabelMaster16}

\* case nodelabels.RoleLabelMaster16, ...: the managed labels that are pruned
IsPruned(k) == k \in PrunedKeys

\* for k := range node.Labels { switch k { ... deleteLabels[k] = struct{}{} } }
RECURSIVE DeleteLoop(_, _, _)
DeleteLoop(keys, ls, acc) ==
  IF keys = {} THEN acc
  ELSE LET k == CHOOSE x \in keys : TRUE
       IN  DeleteLoop(keys \ {k}, ls,
                      IF IsPruned(k) /\ ~Has(ls, k) THEN acc \cup {k} ELSE acc)

\* fault injection: the switch has no cases, every key that is not desired is pruned
BuildDeleteLabelsUnlisted(ls, actualLabels) == {k \in DOMAIN actualLabels : ~Has(ls, k)}

\* fault injection: the test against the desired labels is lost
BuildDeleteLabelsAlways(ls, actualLabels) == {k \in DOMAIN actualLabels : IsPruned(k)}

BuildDeleteLabels(ls, actualLabels) == DeleteLoop(DOMAIN actualLabels, ls, {})

\* len(updateLabels) == 0 && len(deleteLabels) == 0
NoChanges(upd, del) == Cardinality(DOMAIN upd) = 0 /\ Cardinality(del) = 0

\* patchNodeLabels: a partial update of the labels the API server holds
RECURSIVE SetAll(_, _, _)
SetAll(keys, upd, m) ==
  IF keys = {} THEN m
  ELSE LET k == CHOOSE x \in keys : TRUE
       IN  SetAll(keys \ {k}, upd, Put(m, k, upd[k]))

patchNodeLabels(current, upd, del) == Without(SetAll(DOMAIN upd, upd, current), del)

\* ------------------------------------------------------------ initial state
Identities == [InstanceGroup : GroupNames \cup {""}, InstanceLifecycle : Lifecycles]

\* label maps a node may carry when the controller starts: a node that has just
\* registered, one labelled as control plane by an earlier label scheme, and one
\* that carries an explicit group label and a role label of another value
InitLabelMaps ==
  { EmptyMap,
    Put(Put(EmptyMap, RoleLabelMaster16, "true"), UnrelatedLabel, "a"),
    Put(Put(EmptyMap, InstanceGroupLabel, "g2"), RoleLabelNode16, "false") }

InitIdentities == {[InstanceGroup |-> "g1", InstanceLifecycle |-> lc] : lc \in {"", "spot"}}

InitStore ==
  [p \in Paths |->
     IF p = ClusterPath THEN ClusterBytes
     ELSE IF p = InstanceGroupPath("g1") THEN InstanceGroupBytes("Node")
     ELSE InstanceGroupBytes("Master")]

\* the state in which the nodes of `registered` exist and the other names are
\* names of nodes that have been deleted
InitWith(registered) ==
  /\ nodeExists = [n \in Nodes |-> n \in registered]
  /\ nodeLabels \in [Nodes -> InitLabelMaps]
  /\ \A n \in Nodes \ registered : nodeLabels[n] = EmptyMap
  /\ providerID \in [Nodes -> {"", "aws:///i-1"}]
  /\ \A n \in Nodes \ registered : providerID[n] = ""
  /\ store = InitStore
  /\ identity \in [Nodes -> InitIdentities]
  /\ \A n \in Nodes \ registered : identity[n].InstanceLifecycle = ""
  /\ now = 0
  /\ envSteps = 0
  /\ cache = [p \in Paths |-> NoEntry]
  /\ passes = 0
  /\ dispatcher = [n \in Nodes |-> [pending |-> n \in registered, faults |-> 0]]
  /\ pc = [n \in Nodes |-> "idle"]
  /\ node = [n \in Nodes |-> NoNode]
  /\ cluster = [n \in Nodes |-> NoObject]
  /\ ig = [n \in Nodes |-> NoObject]
  /\ labels = [n \in Nodes |-> EmptyMap]
  /\ lifecycle = [n \in Nodes |-> ""]
  /\ updateLabels = [n \in Nodes |-> EmptyMap]
  /\ deleteLabels = [n \in Nodes |-> {}]
  /\ result = [n \in Nodes |-> "none"]
  /\ err = [n \in Nodes |-> ""]
  /\ log = [n \in Nodes |-> <<>>]
  /\ touched = [n \in Nodes |-> FALSE]
  /\ applied = [n \in Nodes |-> {}]
  /\ readLog = [p \in Paths |-> <<>>]
  /\ prev = [n \in Nodes |-> NoPrev]

Init == InitWith({"n1"})

\* ------------------------------------------------------------- the pass
\* the passes of a behaviour that follows the reads of one path
CachePasses == MaxPasses + 1

\* the record of the cache's answers after the pass for n got r from a loader:
\* a read that returned bytes is entered under its path, with the time of the
\* read, the bytes, and whether they came from the store (a backing fetch) or
\* from the stored entry; the record keeps the first CachePasses reads of a path
Reads(n, r) ==
  IF /\ r.log # <<>> /\ r.log[Len(r.log)].call = "Read" /\ r.log[Len(r.log)].err = ""
     /\ Len(readLog[r.log[Len(r.log)].path]) < CachePasses
    THEN [readLog EXCEPT ![r.log[Len(r.log)].path] =
            Append(@, [by |-> n, at |-> now, fetched |-> r.fetched,
                       b |-> r.log[Len(r.log)].b])]
    ELSE readLog

InFlight == {m \in Nodes : pc[m] # "idle"}

\* the dispatcher hands a request for node n to a free worker
Trigger(n) ==
  /\ pc[n] = "idle"
  /\ passes < MaxPasses
  /\ Cardinality(InFlight) < MaxConcurrentReconciles
  /\ pc' = [pc EXCEPT ![n] = "get"]
  /\ passes' = passes + 1
  /\ UNCHANGED <<envVars, cache, localVars, obsVars>>

\* return ctrl.Result{}, e
Return(n, e) ==
  /\ pc' = [pc EXCEPT ![n] = "done"]
  /\ result' = [result EXCEPT ![n] = IF e = "" THEN "ok" ELSE "error"]
  /\ err' = [err EXCEPT ![n] = e]

\* r.client.Get: fail is a failure of the API server or the transport
ClientGet(exists, fail) ==
  IF fail THEN "server error" ELSE IF exists THEN "" ELSE "not found"

\* fault injection: not-found is not told apart from other errors
IsNotFoundNever(e) == FALSE

\* apierrors.IsNotFound(err)
IsNotFound(e) == e = "not found"

\* what Reconcile returns for a failed node fetch
GetError(e) == IF IsNotFound(e) THEN "" ELSE e

\* fault injection: the error of the patch is logged and dropped
PatchErrorDropped(e) == ""

\* what Reconcile returns for a failed patch
PatchError(e) == e

\* r.client.Get and the handling of its error
Get(n) ==
  /\ pc[n] = "get"
  /\ touched' = [touched EXCEPT ![n] = FALSE]
  /\ \E fail \in BOOLEAN :
       LET e == ClientGet(nodeExists[n], fail)
       IN  /\ log' = [log EXCEPT ![n] = Append(@, Call("Get", <<>>, e, Missing, NoIdentity))]
           /\ IF e # ""
                 THEN /\ Return(n, GetError(e))
                      /\ UNCHANGED node
                 ELSE /\ node' = [node EXCEPT ![n] =
                                    [Labels |-> nodeLabels[n], ProviderID |-> providerID[n]]]
                      /\ pc' = [pc EXCEPT ![n] = "cluster"]
                      /\ UNCHANGED <<result, err>>
  /\ UNCHANGED <<envVars, cache, passes, cluster, ig, labels, lifecycle,
                 updateLabels, deleteLabels, applied, readLog, prev>>

\* cluster, err := r.getClusterForNode(node), wherever the pass stands
LoadClusterStep(n) ==
  /\ \E io \in BOOLEAN :
       LET r == getClusterForNode(cache, now, store, io)
       IN  /\ cache' = r.cache
           /\ cluster' = [cluster EXCEPT ![n] = r.cluster]
           /\ log' = [log EXCEPT ![n] = @ \o r.log]
           /\ readLog' = Reads(n, r)
           /\ IF r.err # ""
                 THEN Return(n, "unable to load cluster object: " \o r.err)
                 ELSE /\ pc' = [pc EXCEPT ![n] = "ig"]
                      /\ UNCHANGED <<result, err>>
  /\ UNCHANGED <<envVars, passes, node, ig, labels, lifecycle, updateLabels,
                 deleteLabels, touched, applied, prev>>

\* cluster, err := r.getClusterForNode(node)
LoadCluster(n) ==
  /\ pc[n] = "cluster"
  /\ LoadClusterStep(n)

\* ig, err := r.getInstanceGroupForNode(ctx, node), then nodelabels.BuildNodeLabels
ResolveInstanceGroup(n) ==
  /\ pc[n] = "ig"
  /\ \E fail \in BOOLEAN, io \in BOOLEAN :
       LET r == getInstanceGroupForNode(node[n], identity[n], fail, cache, now, store, io)
           b == BuildNodeLabels(cluster[n], r.ig)
       IN  /\ cache' = r.cache
           /\ ig' = [ig EXCEPT ![n] = r.ig]
           /\ log' = [log EXCEPT ![n] = @ \o r.log]
           /\ readLog' = Reads(n, r)
           /\ IF r.err # ""
                 THEN /\ Return(n, "unable to load instance group object: " \o r.err)
                      /\ UNCHANGED labels
               ELSE IF b.err # ""
                 THEN /\ Return(n, "error building node labels: " \o b.err)
                      /\ UNCHANGED labels
               ELSE /\ labels' = [labels EXCEPT ![n] = b.labels]
                    /\ pc' = [pc EXCEPT ![n] = "lifecycle"]
                    /\ UNCHANGED <<result, err>>
  /\ UNCHANGED <<envVars, passes, node, cluster, lifecycle, updateLabels,
                 deleteLabels, touched, applied, prev>>

\* lifecycle, err := r.getInstanceLifecycle(ctx, node), the lifecycle label, the
\* diff against the fetched node and the return when nothing changes
ResolveLifecycle(n) ==
  /\ pc[n] = "lifecycle"
  /\ \E fail \in BOOLEAN :
       LET r == getInstanceLifecycle(identity[n], fail)
           ls == WithLifecycle(labels[n], r.lifecycle)
           upd == BuildUpdateLabels(ls, node[n].Labels)
           del == BuildDeleteLabels(ls, node[n].Labels)
       IN  /\ log' = [log EXCEPT ![n] = @ \o r.log]
           /\ IF r.err # ""
                 THEN /\ Return(n, "unable to get instance lifecycle: " \o r.err)
                      /\ UNCHANGED <<lifecycle, labels, updateLabels, deleteLabels>>
                 ELSE /\ lifecycle' = [lifecycle EXCEPT ![n] = r.lifecycle]
                      /\ labels' = [labels EXCEPT ![n] = ls]
                      /\ updateLabels' = [updateLabels EXCEPT ![n] = upd]
                      /\ deleteLabels' = [deleteLabels EXCEPT ![n] = del]
                      /\ IF NoChanges(upd, del)
                            THEN Return(n, "")
                            ELSE /\ pc' = [pc EXCEPT ![n] = "patch"]
                                 /\ UNCHANGED <<result, err>>
  /\ UNCHANGED <<envVars, cache, passes, node, cluster, ig, touched, applied, readLog,
                 prev>>

\* the API server's answer to the patch request
ServerPatch(exists, fail) ==
  IF fail THEN "server error" ELSE IF exists THEN "" ELSE "not found"

\* fault injection: the patch is addressed to the node another pass works on
PatchOther(n) ==
  /\ pc[n] = "patch"
  /\ \E fail \in BOOLEAN, m \in Nodes \ {n} :
       LET e == ServerPatch(nodeExists[m], fail)
       IN  /\ log' = [log EXCEPT ![n] = Append(@, Call("Patch", <<>>, e, Missing, NoIdentity))]
           /\ IF e # ""
                 THEN UNCHANGED <<nodeLabels, applied>>
                 ELSE /\ nodeLabels' = [nodeLabels EXCEPT ![m] =
                                          patchNodeLabels(@, updateLabels[n], deleteLabels[n])]
                      /\ applied' = [applied EXCEPT ![m] = @ \cup DOMAIN updateLabels[n]]
           /\ Return(n, PatchError(e))
  /\ UNCHANGED <<nodeExists, providerID, store, identity, now, envSteps, cache, passes,
                 node, cluster, ig, labels, lifecycle, updateLabels, deleteLabels, touched,
                 readLog, prev>>

\* fault injection: the patch carries the update set only
PatchUpdatesOnly(n) ==
  /\ pc[n] = "patch"
  /\ \E fail \in BOOLEAN :
       LET e == ServerPatch(nodeExists[n], fail)
       IN  /\ log' = [log EXCEPT ![n] = Append(@, Call("Patch", <<>>, e, Missing, NoIdentity))]
           /\ IF e # ""
                 THEN UNCHANGED <<nodeLabels, applied>>
                 ELSE /\ nodeLabels' = [nodeLabels EXCEPT ![n] =
                                          patchNodeLabels(@, updateLabels[n], {})]
                      /\ applied' = [applied EXCEPT ![n] = @ \cup DOMAIN updateLabels[n]]
           /\ Return(n, PatchError(e))
  /\ UNCHANGED <<nodeExists, providerID, store, identity, now, envSteps, cache, passes,
                 node, cluster, ig, labels, lifecycle, updateLabels, deleteLabels, touched,
                 readLog, prev>>

\* patchNodeLabels(r.coreV1Client, ctx, node, updateLabels, deleteLabels)
Patch(n) ==
  /\ pc[n] = "patch"
  /\ \E fail \in BOOLEAN :
       LET e == ServerPatch(nodeExists[n], fail)
       IN  /\ log' = [log EXCEPT ![n] = Append(@, Call("Patch", <<>>, e, Missing, NoIdentity))]
           /\ IF e # ""
                 THEN UNCHANGED <<nodeLabels, applied>>
                 ELSE /\ nodeLabels' = [nodeLabels EXCEPT ![n] =
                                          patchNodeLabels(@, updateLabels[n], deleteLabels[n])]
                      /\ applied' = [applied EXCEPT ![n] = @ \cup DOMAIN updateLabels[n]]
           /\ Return(n, PatchError(e))
  /\ UNCHANGED <<nodeExists, providerID, store, identity, now, envSteps, cache, passes,
                 node, cluster, ig, labels, lifecycle, updateLabels, deleteLabels, touched,
                 readLog, prev>>

\* the pass is over: its locals are gone and the worker is free again
Finish(n) ==
  /\ pc[n] = "done"
  /\ pc' = [pc EXCEPT ![n] = "idle"]
  /\ node' = [node EXCEPT ![n] = NoNode]
  /\ cluster' = [cluster EXCEPT ![n] = NoObject]
  /\ ig' = [ig EXCEPT ![n] = NoObject]
  /\ labels' = [labels EXCEPT ![n] = EmptyMap]
  /\ lifecycle' = [lifecycle EXCEPT ![n] = ""]
  /\ updateLabels' = [updateLabels EXCEPT ![n] = EmptyMap]
  /\ deleteLabels' = [deleteLabels EXCEPT ![n] = {}]
  /\ result' = [result EXCEPT ![n] = "none"]
  /\ err' = [err EXCEPT ![n] = ""]
  /\ log' = [log EXCEPT ![n] = <<>>]
  /\ touched' = [touched EXCEPT ![n] = FALSE]
  /\ prev' = [prev EXCEPT ![n] =
                IF /\ \E i \in DOMAIN log[n] : log[n][i].call = "Patch" /\ log[n][i].err = ""
                   /\ ~touched[n]
                  THEN [patched |-> TRUE, cluster |-> cluster[n], ig |-> ig[n],
                        lifecycle |-> lifecycle[n]]
                  ELSE NoPrev]
  /\ UNCHANGED <<envVars, cache, passes, applied, readLog>>

\* ---------------------------------------------------------- the environment
\* whether a write to node n's labels falls between its pass's fetch and its end
Touch(n) == [touched EXCEPT ![n] = @ \/ pc[n] \notin {"idle", "get"}]

WriterLabels ==
  { <<RoleLabelMaster16, "true">>, <<RoleLabelNode16, "false">>, <<UnrelatedLabel, "b">>,
    <<InstanceGroupLabel, "g1">>, <<InstanceGroupLabel, "">> }

\* another actor sets a label of node n
SetLabel(n) ==
  /\ envSteps < MaxEnv
  /\ nodeExists[n]
  /\ \E kv \in WriterLabels :
       /\ Lookup(nodeLabels[n], kv[1]) # kv[2] \/ ~Has(nodeLabels[n], kv[1])
       /\ nodeLabels' = [nodeLabels EXCEPT ![n] = Put(@, kv[1], kv[2])]
  /\ touched' = Touch(n)
  /\ prev' = [prev EXCEPT ![n] = NoPrev]
  /\ envSteps' = envSteps + 1
  /\ UNCHANGED <<nodeExists, providerID, store, identity, now, cache, passes, pc,
                 localVars, log, applied, readLog>>

\* another actor removes a label of node n
RemoveLabel(n) ==
  /\ envSteps < MaxEnv
  /\ nodeExists[n]
  /\ \E k \in DOMAIN nodeLabels[n] :
       nodeLabels' = [nodeLabels EXCEPT ![n] = Without(@, {k})]
  /\ touched' = Touch(n)
  /\ prev' = [prev EXCEPT ![n] = NoPrev]
  /\ envSteps' = envSteps + 1
  /\ UNCHANGED <<nodeExists, providerID, store, identity, now, cache, passes, pc,
                 localVars, log, applied, readLog>>

\* the Node object is deleted
DeleteNode(n) ==
  /\ envSteps < MaxEnv
  /\ nodeExists[n]
  /\ nodeExists' = [nodeExists EXCEPT ![n] = FALSE]
  /\ nodeLabels' = [nodeLabels EXCEPT ![n] = EmptyMap]
  /\ touched' = Touch(n)
  /\ prev' = [prev EXCEPT ![n] = NoPrev]
  /\ envSteps' = envSteps + 1
  /\ UNCHANGED <<providerID, store, identity, now, cache, passes, pc, localVars,
                 log, applied, readLog>>

\* a manifest is rewritten, damaged or removed in the store
WriteManifest(p) ==
  /\ envSteps < MaxEnv
  /\ \E b \in Contents :
       /\ b # store[p]
       /\ store' = [store EXCEPT ![p] = b]
  /\ envSteps' = envSteps + 1
  /\ UNCHANGED <<nodeExists, nodeLabels, providerID, identity, now, cache, passes, pc,
                 localVars, obsVars>>

\* the provider's record of node n changes
ChangeIdentity(n) ==
  /\ envSteps < MaxEnv
  /\ nodeExists[n]
  /\ \E id \in Identities :
       /\ id # identity[n]
       /\ id.InstanceGroup = identity[n].InstanceGroup
            \/ id.InstanceLifecycle = identity[n].InstanceLifecycle
       /\ identity' = [identity EXCEPT ![n] = id]
  /\ envSteps' = envSteps + 1
  /\ UNCHANGED <<nodeExists, nodeLabels, providerID, store, now, cache, passes, pc,
                 localVars, obsVars>>

\* an hour passes
Tick ==
  /\ envSteps < MaxEnv
  /\ now' = now + 1
  /\ envSteps' = envSteps + 1
  /\ UNCHANGED <<nodeExists, nodeLabels, providerID, store, identity, cache,
                 passes, pc, localVars, obsVars>>

Next ==
  /\ \/ \E n \in Nodes :
           \/ Trigger(n)
           \/ Get(n)
           \/ LoadCluster(n)
           \/ ResolveInstanceGroup(n)
           \/ ResolveLifecycle(n)
           \/ Patch(n)
           \/ Finish(n)
           \/ SetLabel(n)
           \/ RemoveLabel(n)
           \/ DeleteNode(n)
           \/ ChangeIdentity(n)
     \/ \E p \in Paths : WriteManifest(p)
     \/ Tick
  /\ UNCHANGED dispatcher

Spec == Init /\ [][Next]_vars

\* ------------------------------------------------- the cache over many passes
\* A run of reads of one path that shows a fetch, a hit and a fetch after the
\* entry has expired takes one pass more than the other properties need, and
\* depends on nothing of the environment but the store and the clock.
TriggerCache(n) ==
  /\ pc[n] = "idle"
  /\ passes < CachePasses
  /\ Cardinality(InFlight) < MaxConcurrentReconciles
  /\ pc' = [pc EXCEPT ![n] = "get"]
  /\ passes' = passes + 1
  /\ UNCHANGED <<envVars, cache, localVars, obsVars>>

NextCache ==
  /\ \/ \E n \in Nodes :
           \/ TriggerCache(n)
           \/ Get(n)
           \/ LoadCluster(n)
           \/ ResolveInstanceGroup(n)
           \/ ResolveLifecycle(n)
           \/ Patch(n)
           \/ Finish(n)
     \/ \E p \in Paths : WriteManifest(p)
     \/ Tick
  /\ UNCHANGED dispatcher

SpecCache == Init /\ [][NextCache]_vars

\* ------------------------------------------------------------ observations
\* the calls of kind c that the pass for n has made
CallsOf(n, c) == {i \in DOMAIN log[n] : log[n][i].call = c}

\* the pass for n fetched its node
Fetched(n) == \E i \in CallsOf(n, "Get") : log[n][i].err = ""

\* the patch call of the pass for n succeeded
Patched(n) == \E i \in CallsOf(n, "Patch") : log[n][i].err = ""

\* the pass for n has computed its desired labels and its diff
DiffDone(n) ==
  \/ pc[n] = "patch"
  \/ pc[n] = "done" /\ Fetched(n) /\ (result[n] = "ok" \/ CallsOf(n, "Patch") # {})

\* the managed label keys: the fixed set enumerated for pruning
ManagedKeys ==
  { "node-role.kubernetes.io/master", "node-role.kubernetes.io/api-server",
    "node-role.kubernetes.io/node", "node-role.kubernetes.io/control-plane" }

\* L with the labels of U set and the keys of X removed
Reconstructed(L, U, X) ==
  [k \in ((DOMAIN L) \cup (DOMAIN U)) \ X |-> IF k \in DOMAIN U THEN U[k] ELSE L[k]]

\* ------------------------------------------------------------------ claims

\* C1: for the fetched labels L and the desired labels D of a pass, the update
\* set is exactly {k -> D[k] : k not in L or L[k] # D[k]}, the delete set is
\* exactly the managed keys of L that are not in D, the two share no key, and
\* after the patch the node's labels are L with the update set applied and the
\* delete set removed, every other key of L keeping its value (L being the
\* labels the node had when it was patched).
C1_DiffCorrect ==
  \A n \in Nodes :
    DiffDone(n) =>
      LET L == node[n].Labels
          D == labels[n]
          U == updateLabels[n]
          X == deleteLabels[n]
      IN  /\ DOMAIN U = {k \in DOMAIN D : k \notin DOMAIN L \/ L[k] # D[k]}
          /\ \A k \in DOMAIN U : U[k] = D[k]
          /\ X = {k \in DOMAIN L : k \in ManagedKeys /\ k \notin DOMAIN D}
          /\ (DOMAIN U) \cap X = {}
          /\ (pc[n] = "done" /\ Patched(n) /\ ~touched[n])
                => /\ nodeLabels[n] = Reconstructed(L, U, X)
                   /\ \A k \in (DOMAIN L) \ ((DOMAIN U) \cup X) : nodeLabels[n][k] = L[k]

\* C1 witness: a patch that set a label of another value, removed a managed
\* label and left an unrelated label alone
C1_Witness ==
  \E n \in Nodes :
    /\ pc[n] = "done" /\ Patched(n) /\ ~touched[n]
    /\ deleteLabels[n] # {}
    /\ \E k \in DOMAIN updateLabels[n] : k \in DOMAIN node[n].Labels
    /\ \E k \in DOMAIN node[n].Labels : k \notin DOMAIN updateLabels[n] \cup deleteLabels[n]

\* C2: every label key a pass sets or removes belongs to the fixed enumerated
\* set of managed label keys.
C2_OnlyManagedKeys ==
  \A n \in Nodes :
    DiffDone(n) => (DOMAIN updateLabels[n]) \cup deleteLabels[n] \subseteq ManagedKeys

\* C3: after a pass that ends in success, the node carries no key that the
\* reconciler is authorized to set (a managed key, or any key an earlier pass
\* set, the lifecycle-derived key included) that is absent from the desired
\* labels of the pass.
C3_StalePruned ==
  \A n \in Nodes :
    (pc[n] = "done" /\ result[n] = "ok" /\ Fetched(n) /\ ~touched[n])
      => \A k \in DOMAIN nodeLabels[n] :
           k \in ManagedKeys \cup applied[n] => k \in DOMAIN labels[n]

\* the labels L hold every desired label of D and no managed key outside D
InSync(L, D) ==
  /\ \A k \in DOMAIN D : k \in DOMAIN L /\ L[k] = D[k]
  /\ \A k \in (DOMAIN L) \cap ManagedKeys : k \in DOMAIN D

\* C4: when the fetched labels already hold every desired label with its
\* desired value and no managed key that is not desired, the pass makes no
\* patch call and returns success.
C4_NoPatchWhenInSync ==
  \A n \in Nodes :
    (DiffDone(n) /\ InSync(node[n].Labels, labels[n]))
      => pc[n] = "done" /\ result[n] = "ok" /\ err[n] = "" /\ CallsOf(n, "Patch") = {}

\* C4 witness: a pass over a node that already carries its desired labels
C4_Witness ==
  \E n \in Nodes :
    /\ pc[n] = "done" /\ DiffDone(n)
    /\ labels[n] # EmptyMap
    /\ InSync(node[n].Labels, labels[n])

\* C5: when the node fetch reports not-found the pass returns success with no
\* error and makes no cache read, no identity-provider call and no patch
\* call; any other error of the node fetch is returned to the caller.
C5_NotFound ==
  \A n \in Nodes :
    \A i \in CallsOf(n, "Get") :
      /\ log[n][i].err = "not found"
           => /\ pc[n] = "done" /\ result[n] = "ok" /\ err[n] = ""
              /\ CallsOf(n, "Read") = {}
              /\ CallsOf(n, "IdentifyNode") = {}
              /\ CallsOf(n, "Patch") = {}
      /\ log[n][i].err \notin {"", "not found"}
           => /\ pc[n] = "done" /\ result[n] = "error" /\ err[n] = log[n][i].err
              /\ Len(log[n]) = 1

\* C5 witness: the node was deleted after its pass was triggered and before
\* the pass fetched it
C5_Witness ==
  \E n \in Nodes :
    /\ n = "n1" /\ ~nodeExists[n] /\ envSteps > 0
    /\ pc[n] = "done"
    /\ log[n] = <<Call("Get", <<>>, "not found", Missing, NoIdentity)>>

\* the explicit group label of the node the pass for n fetched, "" when absent
GroupLabelOf(n) ==
  IF "kops.k8s.io/instancegroup" \in DOMAIN node[n].Labels
    THEN node[n].Labels["kops.k8s.io/instancegroup"] ELSE ""

\* call i of the pass for n is a manifest load that failed: the read failed,
\* the bytes are malformed, or the object is not of the type the path holds
LoadFailed(n, i) ==
  /\ log[n][i].call = "Read"
  /\ \/ log[n][i].err # ""
     \/ log[n][i].b.kind \notin {"Cluster", "InstanceGroup"}
     \/ log[n][i].path = ClusterPath /\ log[n][i].b.kind # "Cluster"
     \/ log[n][i].path # ClusterPath /\ log[n][i].b.kind # "InstanceGroup"

\* call i of the pass for n is the lookup that resolves the group of the node
GroupLookup(n, i) ==
  /\ log[n][i].call = "IdentifyNode"
  /\ i < Len(log[n]) => log[n][i + 1].call = "Read"
  /\ i = Len(log[n]) => GroupLabelOf(n) = "" /\ CallsOf(n, "Read") = {i - 1}

\* call i of the pass for n is a lookup that failed, or a lookup for the group
\* that found no group
LookupFailed(n, i) ==
  /\ log[n][i].call = "IdentifyNode"
  /\ \/ log[n][i].err # ""
     \/ GroupLookup(n, i) /\ log[n][i].id.InstanceGroup = ""

\* the pass for n has got past the resolution of the group of a node that
\* has neither a group label nor a providerID
NoWayToIdentify(n) ==
  /\ Fetched(n) /\ pc[n] \notin {"cluster", "ig"}
  /\ \A i \in CallsOf(n, "Read") : ~LoadFailed(n, i)
  /\ GroupLabelOf(n) = "" /\ node[n].ProviderID = ""

\* C6: a pass in which the cluster-manifest load, the group-identity
\* resolution, the group-manifest load, the manifest decode or the lifecycle
\* resolution fails returns an error and makes no patch call.
C6_FailuresAbort ==
  \A n \in Nodes :
    ((\E i \in DOMAIN log[n] : LoadFailed(n, i) \/ LookupFailed(n, i)) \/ NoWayToIdentify(n))
      => pc[n] = "done" /\ result[n] = "error" /\ err[n] # "" /\ CallsOf(n, "Patch") = {}

\* C6 witness: the store holds malformed bytes at the cluster path and the
\* pass ends with the error of the decode
C6_Witness ==
  \E n \in Nodes :
    /\ pc[n] = "done"
    /\ \E i \in CallsOf(n, "Read") :
         log[n][i].path = ClusterPath /\ log[n][i].err = "" /\ log[n][i].b = Malformed
    /\ err[n] = "unable to load cluster object: error parsing Cluster"

\* the role of the group manifest the pass for n loaded is one the label
\* policy knows
RoleKnown(n) ==
  \A i \in CallsOf(n, "Read") :
    log[n][i].path # ClusterPath => log[n][i].b.role \in {"Master", "APIServer", "Node"}

\* the node fetch of the pass for n reported not-found
NotFoundPass(n) ==
  Len(log[n]) = 1 /\ log[n][1].call = "Get" /\ log[n][1].err = "not found"

\* every step of the pass for n succeeded up to the diff
StepsSucceeded(n) ==
  /\ Fetched(n)
  /\ \A i \in DOMAIN log[n] :
       /\ log[n][i].call # "Patch" => log[n][i].err = ""
       /\ ~LoadFailed(n, i) /\ ~LookupFailed(n, i)
  /\ ~NoWayToIdentify(n)
  /\ RoleKnown(n)
  /\ Cardinality(CallsOf(n, "Read")) = 2
  /\ log[n][Len(log[n])].call \in {"IdentifyNode", "Patch"}

\* C7: a pass returns success only when the node was not found, or when every
\* step succeeded and either the diff was empty or the patch call succeeded;
\* every other failure, a failed patch included, is returned as an error, and
\* no step is retried: nothing is called after a call that failed, the node
\* is fetched and patched at most once and no path is read twice.
C7_SuccessOnlyWhen ==
  \A n \in Nodes :
    /\ pc[n] = "done" =>
         /\ result[n] = "ok" <=>
               \/ NotFoundPass(n)
               \/ /\ StepsSucceeded(n)
                  /\ \/ updateLabels[n] = EmptyMap /\ deleteLabels[n] = {}
                            /\ CallsOf(n, "Patch") = {}
                     \/ Patched(n)
         /\ result[n] = "error" <=> err[n] # ""
         /\ result[n] \in {"ok", "error"}
    /\ \A i \in DOMAIN log[n] : log[n][i].err # "" => i = Len(log[n])
    /\ Cardinality(CallsOf(n, "Get")) <= 1
    /\ Cardinality(CallsOf(n, "Patch")) <= 1
    /\ \A i, j \in CallsOf(n, "Read") : log[n][i].path = log[n][j].path => i = j

\* C7 witness: the patch call failed and the pass returned its error
C7_Witness ==
  \E n \in Nodes :
    /\ pc[n] = "done" /\ result[n] = "error"
    /\ CallsOf(n, "Patch") # {} /\ ~Patched(n)
    /\ nodeExists[n]

\* C8: in a pass for a node with no explicit group label and a non-empty
\* providerID, the identity provider is invoked exactly once in the whole
\* pass (stated for the passes that end in success).
C8_IdentifyOnce ==
  \A n \in Nodes :
    (pc[n] = "done" /\ result[n] = "ok" /\ Fetched(n)
       /\ GroupLabelOf(n) = "" /\ node[n].ProviderID # "")
      => Cardinality(CallsOf(n, "IdentifyNode")) = 1

ValidationError == "unable to load instance group object: node providerID not set"

\* C9 as claimed: a pass for a node with no explicit group label and an empty
\* providerID fails with the validation error, never invokes the identity
\* provider and makes no patch call.
C9_ValidationError ==
  \A n \in Nodes :
    (pc[n] = "done" /\ Fetched(n) /\ GroupLabelOf(n) = "" /\ node[n].ProviderID = "")
      => /\ result[n] = "error" /\ err[n] = ValidationError
         /\ CallsOf(n, "IdentifyNode") = {}
         /\ CallsOf(n, "Patch") = {}

\* C9 amended: a pass for a node with no explicit group label and an empty
\* providerID fails, never invokes the identity provider and makes no patch
\* call; it fails with the validation error when the cluster manifest was
\* loaded, and with the error of the cluster load otherwise.
C9_ValidationErrorAfterClusterLoad ==
  \A n \in Nodes :
    (pc[n] = "done" /\ Fetched(n) /\ GroupLabelOf(n) = "" /\ node[n].ProviderID = "")
      => /\ result[n] = "error"
         /\ CallsOf(n, "IdentifyNode") = {}
         /\ CallsOf(n, "Patch") = {}
         /\ Len(log[n]) = 2 /\ log[n][2].call = "Read" /\ log[n][2].path = ClusterPath
         /\ IF LoadFailed(n, 2)
              THEN err[n] \in {"unable to load cluster object: " \o e :
                                 e \in {"error loading Cluster", "error parsing Cluster",
                                        "unexpected object type for Cluster"}}
              ELSE err[n] = ValidationError

\* C9 witness: the cluster manifest was loaded and the pass failed with the
\* validation error
C9_Witness ==
  \E n \in Nodes :
    /\ pc[n] = "done" /\ Fetched(n) /\ GroupLabelOf(n) = "" /\ node[n].ProviderID = ""
    /\ cluster[n] = ClusterBytes
    /\ err[n] = ValidationError

\* C10: with a non-empty explicit group label the group manifest is read from
\* the path keyed by that label, the provider not being asked for the group,
\* whatever it would answer and whether or not the providerID is set; with
\* the label absent or empty the path is keyed by the group name the provider
\* returned, and an empty group name from the provider is an error.
C10_GroupPath ==
  \A n \in Nodes :
    Fetched(n) =>
      /\ \A i \in CallsOf(n, "Read") :
           log[n][i].path # ClusterPath =>
             IF GroupLabelOf(n) # ""
               THEN /\ log[n][i].path = <<"base", "instancegroup", GroupLabelOf(n)>>
                    /\ \A j \in CallsOf(n, "IdentifyNode") : j > i
               ELSE /\ i > 1 /\ log[n][i - 1].call = "IdentifyNode"
                    /\ log[n][i - 1].err = ""
                    /\ log[n][i - 1].id.InstanceGroup # ""
                    /\ log[n][i].path =
                         <<"base", "instancegroup", log[n][i - 1].id.InstanceGroup>>
      /\ \A i \in CallsOf(n, "IdentifyNode") :
           (GroupLabelOf(n) = "" /\ i = 3 /\ log[n][i].err = ""
              /\ log[n][i].id.InstanceGroup = "")
             => pc[n] = "done" /\ result[n] = "error" /\ Len(log[n]) = 3

\* C10 witness: the node carries the label of one group, the provider knows it
\* as a member of another, and the group manifest has been read
C10_Witness ==
  \E n \in Nodes :
    /\ Fetched(n) /\ GroupLabelOf(n) = "g2" /\ node[n].ProviderID # ""
    /\ identity[n].InstanceGroup = "g1"
    /\ \E i \in CallsOf(n, "Read") : log[n][i].path = InstanceGroupPath("g2")

\* the manifest at p is replaced by that of a control-plane group, or removed
RewriteManifest(p) ==
  /\ WriteManifest(p)
  /\ store'[p] \in {Missing, InstanceGroupBytes("Master")}

\* ------------------------------------------------ passes of several workers
\* With a worker for every node the passes of distinct nodes overlap, and a
\* backing fetch takes time: a cache read that misses is a step that starts the
\* fetch and a step that ends it. The entry of a path is refreshed under the
\* path's lock: a reader that misses while another reader's fetch of the path is
\* in progress waits for it and looks at the entry again.
Workers == Cardinality(Nodes)

\* the read of path p would be answered from the stored entry
WouldHit(p) == ~CacheRead(cache, p, TTL, now, store, FALSE).fetched

\* the group whose manifest the pass for n is about to load
PendingGroup(n) ==
  IF Lookup(node[n].Labels, InstanceGroupLabel) # ""
    THEN Lookup(node[n].Labels, InstanceGroupLabel)
    ELSE log[n][Len(log[n])].id.InstanceGroup

\* the path the pass for n is reading, <<>> when it is not in a cache read
ReadingPath(n) ==
  IF pc[n] \in {"cluster", "cluster-fetch"} THEN ClusterPath
  ELSE IF pc[n] \in {"ig-read", "ig-fetch"} THEN InstanceGroupPath(PendingGroup(n))
  ELSE <<>>

\* the passes whose backing fetch of path p is in progress
Fetching(p) == {m \in Nodes : pc[m] \in {"cluster-fetch", "ig-fetch"} /\ ReadingPath(m) = p}

\* fault injection: the entry is refreshed without the path's lock
MustWaitNever(p) == FALSE

\* a reader that misses on path p has to wait
MustWait(p) == Fetching(p) # {}

TriggerConc(n) ==
  /\ pc[n] = "idle"
  /\ passes < MaxPasses
  /\ Cardinality(InFlight) < Workers
  /\ pc' = [pc EXCEPT ![n] = "get"]
  /\ passes' = passes + 1
  /\ UNCHANGED <<envVars, cache, localVars, obsVars>>

\* the cluster manifest is answered from the stored entry
ClusterHit(n) ==
  /\ pc[n] = "cluster"
  /\ WouldHit(ClusterPath)
  /\ LoadClusterStep(n)

\* the cluster manifest is not in the cache: the backing fetch starts
ClusterMiss(n) ==
  /\ pc[n] = "cluster"
  /\ ~WouldHit(ClusterPath)
  /\ ~MustWait(ClusterPath)
  /\ pc' = [pc EXCEPT ![n] = "cluster-fetch"]
  /\ UNCHANGED <<envVars, cache, passes, localVars, obsVars>>

\* the backing fetch of the cluster manifest ends
ClusterFetch(n) ==
  /\ pc[n] = "cluster-fetch"
  /\ LoadClusterStep(n)

\* getInstanceGroupForNode up to the name of the group
GroupName(n) ==
  /\ pc[n] = "ig"
  /\ \E fail \in BOOLEAN :
       LET r == instanceGroupNameForNode(node[n], identity[n], fail)
       IN  /\ log' = [log EXCEPT ![n] = @ \o r.log]
           /\ IF r.err # ""
                 THEN Return(n, "unable to load instance group object: " \o r.err)
                 ELSE /\ pc' = [pc EXCEPT ![n] = "ig-read"]
                      /\ UNCHANGED <<result, err>>
  /\ UNCHANGED <<envVars, cache, passes, node, cluster, ig, labels, lifecycle,
                 updateLabels, deleteLabels, touched, applied, readLog, prev>>

\* r.loadNamedInstanceGroup(instanceGroupName), then nodelabels.BuildNodeLabels
GroupLoadStep(n) ==
  /\ \E io \in BOOLEAN :
       LET r == loadNamedInstanceGroup(PendingGroup(n), cache, now, store, io)
           b == BuildNodeLabels(cluster[n], r.ig)
       IN  /\ cache' = r.cache
           /\ ig' = [ig EXCEPT ![n] = r.ig]
           /\ log' = [log EXCEPT ![n] = @ \o r.log]
           /\ readLog' = Reads(n, r)
           /\ IF r.err # ""
                 THEN /\ Return(n, "unable to load instance group object: " \o r.err)
                      /\ UNCHANGED labels
               ELSE IF b.err # ""
                 THEN /\ Return(n, "error building node labels: " \o b.err)
                      /\ UNCHANGED labels
               ELSE /\ labels' = [labels EXCEPT ![n] = b.labels]
                    /\ pc' = [pc EXCEPT ![n] = "lifecycle"]
                    /\ UNCHANGED <<result, err>>
  /\ UNCHANGED <<envVars, passes, node, cluster, lifecycle, updateLabels,
                 deleteLabels, touched, applied, prev>>

\* the manifest of the group is answered from the stored entry
GroupHit(n) ==
  /\ pc[n] = "ig-read"
  /\ WouldHit(ReadingPath(n))
  /\ GroupLoadStep(n)

\* the manifest of the group is not in the cache: the backing fetch starts
GroupMiss(n) ==
  /\ pc[n] = "ig-read"
  /\ ~WouldHit(ReadingPath(n))
  /\ ~MustWait(ReadingPath(n))
  /\ pc' = [pc EXCEPT ![n] = "ig-fetch"]
  /\ UNCHANGED <<envVars, cache, passes, localVars, obsVars>>

\* the backing fetch of the group's manifest ends
GroupFetch(n) ==
  /\ pc[n] = "ig-fetch"
  /\ GroupLoadStep(n)

NextConc ==
  /\ \/ \E n \in Nodes :
           \/ TriggerConc(n)
           \/ Get(n)
           \/ ClusterHit(n)
           \/ ClusterMiss(n)
           \/ ClusterFetch(n)
           \/ GroupName(n)
           \/ GroupHit(n)
           \/ GroupMiss(n)
           \/ GroupFetch(n)
           \/ ResolveLifecycle(n)
           \/ Patch(n)
           \/ Finish(n)
     \/ \E p \in Paths : RewriteManifest(p)
     \/ Tick
  /\ UNCHANGED dispatcher

\* every node is registered and known to the provider; n1 is a spot instance
\* that has just registered, n2 has just registered too or carries the label of
\* another group
InitConc ==
  /\ InitWith(Nodes)
  /\ \A n \in Nodes : providerID[n] # ""
  /\ \A n \in Nodes : identity[n].InstanceLifecycle = (IF n = "n1" THEN "spot" ELSE "")
  /\ nodeLabels["n1"] = EmptyMap
  /\ nodeLabels["n2"] # Put(Put(EmptyMap, RoleLabelMaster16, "true"), UnrelatedLabel, "a")

SpecConc == InitConc /\ [][NextConc]_vars

\* --------------------------------------------- the dispatcher and its queue
\* The controller is set up for Node objects only: a request for a node is queued
\* when the node changes (the reconciler's own patch included) and when its pass
\* returned an error; a change of a manifest queues nothing. The number of passes
\* is not bounded here; the external calls fail a bounded number of times and
\* succeed from then on; the other actors set labels and rewrite manifests, and
\* the clock stands still, so that no entry of the cache expires.
Queued(d, n) == [d EXCEPT ![n].pending = TRUE]

TriggerLive(n) ==
  /\ pc[n] = "idle"
  /\ dispatcher[n].pending
  /\ Cardinality(InFlight) < MaxConcurrentReconciles
  /\ pc' = [pc EXCEPT ![n] = "get"]
  /\ dispatcher' = [dispatcher EXCEPT ![n].pending = FALSE]
  /\ UNCHANGED <<envVars, cache, passes, localVars, obsVars>>

\* the errors of an external call that is out of order: the API server, the
\* store, the provider
ExternalFailures == {"server error", "io", "lookup failed"}

\* the last call of the calls l failed for such a reason
Faulted(l) == l # <<>> /\ l[Len(l)].err \in ExternalFailures

\* the queue after a step of the pass for n that made external calls: a failed
\* call is counted, and none fails once MaxFaults have
Counted(n) ==
  IF Faulted(log'[n])
    THEN /\ dispatcher[n].faults < MaxFaults
         /\ dispatcher' = [dispatcher EXCEPT ![n].faults = @ + 1]
    ELSE dispatcher' = dispatcher

\* a step of the pass for n and what it leaves in the queue
PassStep(n) ==
  \/ /\ Get(n) \/ LoadCluster(n) \/ ResolveInstanceGroup(n) \/ ResolveLifecycle(n)
     /\ Counted(n)
  \/ /\ Patch(n)
     /\ IF nodeLabels'[n] # nodeLabels[n]
           THEN dispatcher' = Queued(dispatcher, n)
           ELSE Counted(n)
  \/ /\ Finish(n)
     /\ dispatcher' = IF result[n] = "error" THEN Queued(dispatcher, n) ELSE dispatcher

\* a change of the Node object by another actor
NodeChange(n) ==
  /\ SetLabel(n)
  /\ dispatcher' = Queued(dispatcher, n)

\* a change the controller is not told of: a manifest is rewritten
SilentChange ==
  /\ \E p \in Paths : RewriteManifest(p)
  /\ UNCHANGED dispatcher

NextLive ==
  \/ \E n \in Nodes :
        \/ TriggerLive(n)
        \/ PassStep(n)
        \/ NodeChange(n)
  \/ SilentChange

\* the dispatcher hands every queued request to the worker, and the worker goes
\* on with the pass it has started
Fairness == \A n \in Nodes : WF_vars(TriggerLive(n)) /\ WF_vars(PassStep(n))

\* a spot instance of a worker group that an earlier label scheme has labelled
\* as control plane
InitLive ==
  /\ Init
  /\ nodeLabels["n1"] = Put(Put(EmptyMap, RoleLabelMaster16, "true"), UnrelatedLabel, "a")
  /\ providerID["n1"] # ""
  /\ identity["n1"].InstanceLifecycle = "spot"

SpecLive == InitLive /\ [][NextLive]_vars /\ Fairness

\* a read of the path's history that found a stored entry younger than the ttl:
\* some earlier backing fetch of the path lies less than the ttl before it
Young(rl, i) == \E j \in 1..(i - 1) : rl[j].fetched /\ rl[i].at - rl[j].at < TTL

\* the last backing fetch before read i of the path's history
LastFetch(rl, i) ==
  CHOOSE j \in 1..(i - 1) : rl[j].fetched /\ \A k \in (j + 1)..(i - 1) : ~rl[k].fetched

\* C11: over the reads of one path that the cache answered with bytes, a read
\* made while the stored entry is younger than the ttl triggers no backing fetch
\* and every other read triggers exactly one: so two reads within one ttl window
\* cost one fetch in total and the first read after the ttl has elapsed costs
\* one more; the bytes served from the stored entry are those of the last fetch,
\* which is less than the ttl old.
C11_ReadThrough ==
  \A p \in Paths : \A i \in DOMAIN readLog[p] :
     LET rl == readLog[p]
     IN  /\ rl[i].fetched <=> ~Young(rl, i)
         /\ ~rl[i].fetched =>
               /\ rl[i].b = rl[LastFetch(rl, i)].b
               /\ rl[i].at - rl[LastFetch(rl, i)].at < TTL

\* three reads of one path: a fetch, a hit within the window, and a fetch by the
\* first read after the ttl has elapsed
C11_Witness ==
  \E p \in Paths :
     /\ Len(readLog[p]) = 3
     /\ readLog[p][1].fetched /\ ~readLog[p][2].fetched /\ readLog[p][3].fetched
     /\ readLog[p][2].at - readLog[p][1].at < TTL
     /\ readLog[p][3].at - readLog[p][1].at >= TTL

FetchesOf(p) == {i \in DOMAIN readLog[p] : readLog[p][i].fetched}

\* the entry the cache holds for p when only fetches that return bytes are stored
StoredEntry(p) ==
  IF FetchesOf(p) = {} THEN NoEntry
  ELSE LET i == CHOOSE x \in FetchesOf(p) : \A y \in FetchesOf(p) : y <= x
       IN  [valid |-> TRUE, payload |-> readLog[p][i].b, fetchedAt |-> readLog[p][i].at]

\* the pass for n has ended on a cache read that returned an error
ReadFailed(n) ==
  /\ pc[n] = "done"
  /\ log[n] # <<>>
  /\ log[n][Len(log[n])].call = "Read"
  /\ log[n][Len(log[n])].err # ""

\* C13: a cache read that finds its entry missing or expired and whose backing
\* fetch fails returns the error of the fetch and no bytes, never the expired
\* payload; the pass then fails with the load error and makes no patch call;
\* and the stored entry is not refreshed: the cache holds for every path what
\* the last fetch that returned bytes stored, so the entry stays missing or
\* expired.
C13_FetchFailure ==
  /\ \A p \in Paths : cache[p] = StoredEntry(p)
  /\ \A n \in Nodes :
        ReadFailed(n) =>
          LET rd == log[n][Len(log[n])]
          IN  /\ rd.b = Missing
              /\ ~WouldHit(rd.path)
              /\ result[n] = "error"
              /\ err[n] = (IF rd.path = ClusterPath
                             THEN "unable to load cluster object: error loading Cluster"
                             ELSE "unable to load instance group object: error loading InstanceGroup")
              /\ CallsOf(n, "Patch") = {}

\* a pass has failed on the read of a manifest whose stored entry had expired and
\* whose fetch failed while the store holds the manifest
C13_Witness ==
  \E n \in Nodes :
     /\ ReadFailed(n)
     /\ log[n][Len(log[n])].err = "io"
     /\ cache[log[n][Len(log[n])].path].valid
     /\ store[log[n][Len(log[n])].path] # Missing

\* C14: a pass for a node that carries the control-plane role label of the
\* earlier label scheme and whose group declares the worker role computes an
\* update set with the worker role key when the node lacks it (or has another
\* value for it) and a delete set with the earlier control-plane key, and makes
\* exactly one patch call; and in every pass each role key of any label scheme
\* that is on the fetched node and not desired is in the delete set.
C14_StaleRolePruned ==
  \A n \in Nodes :
     DiffDone(n) =>
       /\ \A k \in ManagedKeys :
             (k \in DOMAIN node[n].Labels /\ k \notin DOMAIN labels[n]) => k \in deleteLabels[n]
       /\ ("node-role.kubernetes.io/master" \in DOMAIN node[n].Labels /\ ig[n].role = "Node") =>
             /\ "node-role.kubernetes.io/master" \in deleteLabels[n]
             /\ Lookup(node[n].Labels, "node-role.kubernetes.io/node") # "true" =>
                   /\ "node-role.kubernetes.io/node" \in DOMAIN updateLabels[n]
                   /\ updateLabels[n]["node-role.kubernetes.io/node"] = "true"
             /\ pc[n] = "done" => Cardinality(CallsOf(n, "Patch")) = 1

\* a node labelled as control plane by the earlier scheme, in a worker group, has
\* been patched: the worker key is set and the control-plane key is gone
C14_Witness ==
  \E n \in Nodes :
     /\ pc[n] = "done"
     /\ Patched(n)
     /\ ~touched[n]
     /\ "node-role.kubernetes.io/master" \in DOMAIN node[n].Labels
     /\ ig[n].role = "Node"
     /\ "node-role.kubernetes.io/master" \notin DOMAIN nodeLabels[n]
     /\ Lookup(nodeLabels[n], "node-role.kubernetes.io/node") = "true"

\* the lifecycle class the provider returned to the pass for n: the answer to
\* its last lookup
ResolvedLifecycle(n) ==
  LET i == CHOOSE x \in CallsOf(n, "IdentifyNode") : \A y \in CallsOf(n, "IdentifyNode") : y <= x
  IN  log[n][i].id.InstanceLifecycle

\* the lifecycle-derived keys
LifecycleKeys ==
  { "node-role.kubernetes.io/spot-worker", "node-role.kubernetes.io/scheduled-worker",
    "node-role.kubernetes.io/-worker" }

\* C15: the desired labels of a pass hold "node-role.kubernetes.io/<class>-worker"
\* with the value "true" exactly when the lifecycle class the provider returned
\* is not empty, and no other lifecycle-derived key; when the class is empty they
\* are exactly the labels the Label Policy returned for the cluster and the group.
C15_LifecycleLabel ==
  \A n \in Nodes :
     DiffDone(n) =>
       LET lc == ResolvedLifecycle(n)
           key == "node-role.kubernetes.io/" \o lc \o "-worker"
           policy == BuildNodeLabels(cluster[n], ig[n]).labels
       IN  /\ lc # "" => /\ Lookup(labels[n], key) = "true"
                          /\ LifecycleKeys \cap DOMAIN labels[n] = {key}
                          /\ Without(labels[n], {key}) = policy
           /\ lc = "" => /\ LifecycleKeys \cap DOMAIN labels[n] = {}
                          /\ labels[n] = policy

\* a pass for a spot instance has computed its desired labels: the key of the
\* spot class beside the role labels of its group
C15_Witness ==
  \E n \in Nodes :
     /\ DiffDone(n)
     /\ ResolvedLifecycle(n) = "spot"
     /\ Lookup(labels[n], "node-role.kubernetes.io/spot-worker") = "true"
     /\ Cardinality(DOMAIN labels[n]) >= 2

\* the first i calls of the pass for n are, in this order among them: the fetch
\* of the node, the load of the cluster manifest, the load of the group's
\* manifest and, as call i, the lookup of the lifecycle, all without error
Prepared(n, i) ==
  /\ i \in DOMAIN log[n]
  /\ log[n][i].call = "IdentifyNode" /\ log[n][i].err = ""
  /\ \E g, c, r \in 1..i :
        /\ g < c /\ c < r /\ r < i
        /\ log[n][g].call = "Get" /\ log[n][g].err = ""
        /\ log[n][c].call = "Read" /\ log[n][c].path = ClusterPath /\ log[n][c].err = ""
        /\ log[n][r].call = "Read" /\ log[n][r].path # ClusterPath /\ log[n][r].err = ""

\* C16: a pass makes at most one patch call; the call comes after the fetch of
\* the node, the two manifest loads, the resolution of group and lifecycle and
\* the diff, and is the last external call of the pass; it carries the update
\* set and the delete set together: when it succeeds, and no other writer came
\* between, every label of the update set is on the node and no key of the
\* delete set is.
C16_SinglePatchLast ==
  \A n \in Nodes :
     /\ Cardinality(CallsOf(n, "Patch")) <= 1
     /\ pc[n] = "patch" =>
           /\ CallsOf(n, "Patch") = {}
           /\ Prepared(n, Len(log[n]))
           /\ ~NoChanges(updateLabels[n], deleteLabels[n])
     /\ \A i \in CallsOf(n, "Patch") :
           /\ i = Len(log[n])
           /\ pc[n] = "done"
           /\ Prepared(n, i - 1)
           /\ ~NoChanges(updateLabels[n], deleteLabels[n])
           /\ (log[n][i].err = "" /\ ~touched[n]) =>
                 /\ \A k \in DOMAIN updateLabels[n] :
                       Has(nodeLabels[n], k) /\ nodeLabels[n][k] = updateLabels[n][k]
                 /\ \A k \in deleteLabels[n] : ~Has(nodeLabels[n], k)

\* a pass has ended with a patch that carried labels to set and keys to remove
C16_Witness ==
  \E n \in Nodes :
     /\ pc[n] = "done"
     /\ Patched(n)
     /\ ~touched[n]
     /\ DOMAIN updateLabels[n] # {}
     /\ deleteLabels[n] # {}

\* key k of node n is a label of other actors for the pass for n: not desired by
\* the pass and not one of the role keys that are pruned
NotOurs(n, k) == k \notin DOMAIN labels[n] /\ k \notin ManagedKeys

\* C17: a label of the node whose key is neither desired nor one of the
\* enumerated role keys is left alone by the pass: the key is in neither set of
\* the patch, and no step of a pass changes the label, so that it keeps the
\* value other actors last gave it.
C17_Frame ==
  [][\A n \in Nodes :
       /\ pc[n] = "patch" =>
             \A k \in DOMAIN node[n].Labels :
                NotOurs(n, k) => k \notin DOMAIN updateLabels[n] /\ k \notin deleteLabels[n]
       /\ envSteps' = envSteps =>
             \A k \in DOMAIN nodeLabels[n] \cup DOMAIN nodeLabels'[n] :
                NotOurs(n, k) =>
                  /\ Has(nodeLabels'[n], k) = Has(nodeLabels[n], k)
                  /\ Lookup(nodeLabels'[n], k) = Lookup(nodeLabels[n], k)]_vars

\* a node that carried a label of another actor has been patched and the label
\* is as it was
C17_Witness ==
  \E n \in Nodes :
     /\ pc[n] = "done"
     /\ Patched(n)
     /\ ~touched[n]
     /\ Lookup(node[n].Labels, UnrelatedLabel) = "a"
     /\ Lookup(nodeLabels[n], UnrelatedLabel) = "a"
     /\ nodeLabels[n] # node[n].Labels

\* the pass for n works from what the last pass for n worked from, that pass
\* patched the node, and no other writer has changed the node's labels since
SecondPass(n) ==
  /\ DiffDone(n)
  /\ prev[n].patched
  /\ prev[n].cluster = cluster[n]
  /\ prev[n].ig = ig[n]
  /\ prev[n].lifecycle = ResolvedLifecycle(n)

\* C18: when a pass has ended with a successful patch and the next pass for the
\* node finds the same cluster manifest, group manifest and lifecycle class, no
\* other actor having changed the node's labels in between, the second pass
\* computes an empty update set and an empty delete set and makes no patch call.
C18_Fixpoint ==
  \A n \in Nodes :
     SecondPass(n) =>
       /\ DOMAIN updateLabels[n] = {}
       /\ deleteLabels[n] = {}
       /\ CallsOf(n, "Patch") = {}
       /\ pc[n] = "done" /\ result[n] = "ok"

\* the second of two passes for a node has ended: the first patched the node,
\* the second found nothing to change
C18_Witness ==
  \E n \in Nodes :
     /\ SecondPass(n)
     /\ passes = 2
     /\ pc[n] = "done"
     /\ nodeLabels[n] # EmptyMap

\* what belongs to the pass for n
Locals(n) ==
  <<node[n], cluster[n], ig[n], labels[n], lifecycle[n], updateLabels[n], deleteLabels[n],
    result[n], err[n], log[n]>>

\* the bytes the pass for n got from its read of the cluster manifest (own = FALSE:
\* of its group's manifest)
BytesRead(n, own) ==
  LET i == CHOOSE x \in CallsOf(n, "Read") : (log[n][x].path = ClusterPath) = ~own
  IN  log[n][i].b

\* the desired labels a pass computes, running alone, from the manifests and the
\* lifecycle that the pass for n was given
DesiredAlone(n) ==
  WithLifecycle(BuildNodeLabels(Decode(BytesRead(n, FALSE)).obj,
                                Decode(BytesRead(n, TRUE)).obj).labels,
                ResolvedLifecycle(n))

\* C19: passes of distinct nodes that overlap share nothing but the cache: a
\* step of the pass for one node changes neither what belongs to the pass for
\* another node nor the labels of another node, a node's labels change only by
\* the patch of its own pass, and the sets a pass takes to its patch are those
\* it would compute running alone from the node it fetched and the manifests and
\* identity answers it was given.
C19_Isolation ==
  [][\A m \in Nodes :
       /\ pc'[m] = pc[m] => Locals(m)' = Locals(m) /\ nodeLabels'[m] = nodeLabels[m]
       /\ nodeLabels'[m] # nodeLabels[m] =>
             /\ pc[m] = "patch"
             /\ nodeLabels'[m] = patchNodeLabels(nodeLabels[m], updateLabels[m], deleteLabels[m])
       /\ pc[m] = "patch" =>
             /\ updateLabels[m] = BuildUpdateLabels(DesiredAlone(m), node[m].Labels)
             /\ deleteLabels[m] = BuildDeleteLabels(DesiredAlone(m), node[m].Labels)]_vars

\* two passes overlap: one has patched its node, the other is about to patch its
\* own with other labels
C19_Witness ==
  \E n, m \in Nodes :
     /\ n # m
     /\ pc[n] = "done" /\ Patched(n)
     /\ pc[m] = "patch"
     /\ updateLabels[n] # updateLabels[m]
     /\ nodeLabels[m] = node[m].Labels

\* the group of node n as things stand: its label, else the provider's record
GroupNow(n) ==
  IF Lookup(nodeLabels[n], InstanceGroupLabel) # "" THEN Lookup(nodeLabels[n], InstanceGroupLabel)
  ELSE IF providerID[n] # "" THEN identity[n].InstanceGroup
  ELSE ""

\* as things stand a pass for n can succeed: the node exists, its group is known
\* and the store holds a cluster manifest and a manifest of the group with a role
\* the label policy knows
Healthy(n) ==
  /\ nodeExists[n]
  /\ GroupNow(n) \in GroupNames
  /\ store[ClusterPath].kind = "Cluster"
  /\ store[InstanceGroupPath(GroupNow(n))].kind = "InstanceGroup"
  /\ store[InstanceGroupPath(GroupNow(n))].role \in Roles

\* the desired labels of node n as the manifests of the store and the provider's
\* record stand
DesiredNow(n) ==
  WithLifecycle(BuildNodeLabels(Decode(store[ClusterPath]).obj,
                                Decode(store[InstanceGroupPath(GroupNow(n))]).obj).labels,
                identity[n].InstanceLifecycle)

\* node n holds its desired labels and no pass is about to patch it
Settled(n) == InSync(nodeLabels[n], DesiredNow(n)) /\ pc[n] # "patch"

\* the cache serves for node n what the store holds: no stored entry of the
\* cluster manifest or of the manifest of the node's group differs from it
CacheAgrees(n) ==
  \A p \in {ClusterPath, InstanceGroupPath(GroupNow(n))} :
     cache[p].valid => cache[p].payload = store[p]

====
